---------------------------- MODULE Spec2Model ----------------------------
(***************************************************************************)
(* A model of the bid crawler core of geunyong16/RECO (assignment_B):      *)
(*   - utils/retry.py            retry_async, RetryContext                 *)
(*   - models/bid_notice.py      BidNotice.transition_to                   *)
(*   - storage/json_storage.py   JsonStorage (the reference Repository)    *)
(*   - scheduler/cron.py         CrawlScheduler                            *)
(*   - models/crawl_state.py, storage/state_manager.py, crawler.py         *)
(*                               the producer/consumer pipeline            *)
(* Every subsystem has its own specification over its own variables; the   *)
(* variables of the other subsystems stay at their idle values.            *)
(***************************************************************************)
EXTENDS Integers, Sequences, FiniteSets, TLC

VARIABLES
    retry,        \* one call of retry_async: its arguments and its locals
    repo,         \* a JsonStorage instance: _id_cache, _buffer, the output file
    repoHist,     \* what the calls on the JsonStorage returned (history)
    sched,        \* a CrawlScheduler and the APScheduler job it registered
    cfg,          \* CrawlerConfig of the runs, and the listing the site serves
    phase,        \* "idle": no BidCrawler.run in progress; "running"
    run_no,       \* BidCrawler.run calls started so far
    state,        \* StateManager._state, the CrawlState in memory
    state_file,   \* content of the state file on disk
    backup_file,  \* content of the backup file on disk
    archive,      \* records in the output files of the earlier runs
    task_queue,   \* the asyncio.Queue of _execute_crawl_pipeline
    unfinished,   \* its count of unfinished tasks (put minus task_done)
    items_collected, \* nonlocal counters of _execute_crawl_pipeline
    current_page,
    page_items,
    prod,         \* the producer coroutine: where it is suspended, its locals
    wk,           \* the workers: where each is suspended, its task
    faults,       \* failures the environment may still inject
    hist,         \* history of the runs (what was scraped, saved, how it ended)
    smHist,       \* what the calls on the StateManager returned (history)
    ctx,          \* a RetryContext: its attempt counter and who drives it
    notice        \* a BidNotice and what its last transition_to gave

retryVars == <<retry>>
repoHistVars == <<repoHist>>
schedVars == <<sched>>
crawlVars == <<cfg, phase, run_no, state, state_file, backup_file, archive,
               task_queue, unfinished, items_collected, current_page,
               page_items, prod, wk, faults, hist, smHist>>
domainVars == <<ctx, notice>>
vars == <<retry, repo, repoHist, sched, crawlVars, domainVars>>

\* Python's None: NONE where a string is expected, NoInt for an integer.
NONE == "none"
NoInt == -1

Min(a, b) == IF a <= b THEN a ELSE b

RECURSIVE Pow2(_)
Pow2(n) == IF n = 0 THEN 1 ELSE 2 * Pow2(n - 1)

Range(s) == {s[i] : i \in 1..Len(s)}

(***************************************************************************)
(* utils/retry.py : retry_async                                            *)
(***************************************************************************)

\* Largest max_retries the model tries.
MaxRetriesBound == 2

\* An invocation of the wrapped operation ends in a result, in an error that
\* retry_exceptions matches ("R"), or in an error it does not match ("N").
Outcomes == {"ok", "R", "N"}

\* random.random() of the jitter, in percent (0.5 + r becomes 50 + r).
JitterPercents == {0, 50, 99}

RetryArgs ==
    [max_retries : 0..MaxRetriesBound,
     base_delay : {1000},
     max_delay : {3000},
     exponential_backoff : BOOLEAN,
     jitter : BOOLEAN,
     has_on_retry : BOOLEAN]

RetryIdle ==
    [args |-> [max_retries |-> 0, base_delay |-> 1000, max_delay |-> 3000,
               exponential_backoff |-> FALSE, jitter |-> FALSE,
               has_on_retry |-> FALSE],
     pc |-> "idle", attempt |-> 0, calls |-> 0, outcomes |-> <<>>,
     last_exception |-> [kind |-> NONE, call |-> 0],
     on_retry_calls |-> <<>>, sleeps |-> <<>>,
     events |-> <<>>, result |-> 0, raised |-> [type |-> NONE]]

\* retry_async entered: last_exception = None, the loop at attempt 0.
RetryStart(a) == [RetryIdle EXCEPT !.args = a, !.pc = "call"]

\* The error object raised by the k-th invocation.
ErrorOf(kind, k) == [kind |-> kind, call |-> k]

\* The delay of lines 91-98, in milliseconds, jitter factor j percent.
RetryDelay(a, attempt, j) ==
    LET d == IF a.exponential_backoff
             THEN Min(a.base_delay * Pow2(attempt), a.max_delay)
             ELSE a.base_delay
    IN  IF a.jitter THEN (d * (50 + j)) \div 100 ELSE d

\* A policy that would retry every error, whatever retry_exceptions says.
RetryableMut(o) == o # "ok"

\* Line 77: the error is an instance of retry_exceptions.
Retryable(o) == o = "R"

\* A loop that would give up one attempt early.
IsLastAttemptMut(r) == r.attempt + 1 = r.args.max_retries

\* Line 80: the attempt after which no other follows.
IsLastAttempt(r) == r.attempt = r.args.max_retries

\* An on_retry that would be given the 0-based attempt.
OnRetryAttemptMut(attempt) == attempt

\* Line 105: the attempt number on_retry is called with.
OnRetryAttempt(attempt) == attempt + 1

\* One pass of the loop body (lines 71-108) up to its next suspension:
\* the invocation ends with outcome o; j is the jitter drawn.
retry_async_attempt(r, o, j) ==
    LET k  == r.calls + 1
        e  == ErrorOf(o, k)
        r1 == [r EXCEPT !.calls = k,
                        !.outcomes = Append(@, o),
                        !.events = Append(@, <<"call", r.attempt>>)]
    IN  IF o = "ok"
        THEN [r1 EXCEPT !.pc = "returned", !.result = k]
        ELSE IF ~Retryable(o)
        THEN [r1 EXCEPT !.pc = "raised",
                        !.raised = [type |-> "original", error |-> e]]
        ELSE IF IsLastAttempt(r)
        THEN [r1 EXCEPT !.pc = "raised",
                        !.last_exception = e,
                        !.raised = [type |-> "RetryError",
                                    attempts |-> r.attempt + 1,
                                    last_exception |-> e]]
        ELSE LET d == RetryDelay(r.args, r.attempt, j)
             IN [r1 EXCEPT
                   !.pc = "sleep",
                   !.last_exception = e,
                   !.on_retry_calls =
                       IF r.args.has_on_retry
                       THEN Append(@, [attempt |-> OnRetryAttempt(r.attempt),
                                       error |-> e])
                       ELSE @,
                   !.events =
                       IF r.args.has_on_retry
                       THEN @ \o << <<"on_retry", OnRetryAttempt(r.attempt)>>,
                                    <<"sleep", d>> >>
                       ELSE Append(@, <<"sleep", d>>),
                   !.sleeps = Append(@, d)]

\* asyncio.sleep(delay) is over: the for loop takes its next attempt, or
\* range(max_retries + 1) is exhausted and line 111 raises.
retry_async_wake(r) ==
    IF r.attempt + 1 <= r.args.max_retries
    THEN [r EXCEPT !.pc = "call", !.attempt = @ + 1]
    ELSE [r EXCEPT !.pc = "raised",
                   !.raised = [type |-> "RetryError",
                               attempts |-> r.args.max_retries + 1,
                               last_exception |-> r.last_exception]]

RetryInvoke ==
    /\ retry.pc = "call"
    /\ \E o \in Outcomes, j \in JitterPercents :
         /\ (~retry.args.jitter => j = 0)
         /\ retry' = retry_async_attempt(retry, o, j)
    /\ UNCHANGED <<repo, repoHistVars, schedVars, crawlVars, domainVars>>

RetryWake ==
    /\ retry.pc = "sleep"
    /\ retry' = retry_async_wake(retry)
    /\ UNCHANGED <<repo, repoHistVars, schedVars, crawlVars, domainVars>>

\* RetryContext(max_retries): attempt = 0, last_exception = None.  `used`
\* tells whether the call of retry_async in progress was made by execute.
RetryContext(max_retries, used) ==
    [max_retries |-> max_retries, attempt |-> 0,
     last_exception |-> [kind |-> NONE, call |-> 0], used |-> used,
     raised |-> FALSE]

CtxIdle == RetryContext(0, FALSE)

\* The keyword arguments execute passes to retry_async (lines 205-213):
\* jitter and on_retry are left at their defaults.
ExecuteArgs(a) == [a EXCEPT !.jitter = TRUE, !.has_on_retry = FALSE]

\* The attempts property.
attempts(c) == c.attempt

\* should_retry (lines 184-186).
should_retry(c) == c.attempt <= c.max_retries

\* handle_error (lines 215-242): the error is remembered and counted, and
\* RetryError is raised once the count has passed max_retries; otherwise
\* the coroutine sleeps and returns.
handle_error(c, error) ==
    [c EXCEPT !.last_exception = error,
              !.attempt = @ + 1,
              !.raised = (c.attempt + 1 > c.max_retries)]

\* execute (lines 193-213) is the call of retry_async and nothing else:
\* RetryInvoke and RetryWake are its steps and leave the context alone.
\* Here the caller of execute hands the error execute raised to
\* handle_error, as long as should_retry allows.
RetryHandleError ==
    /\ ctx.used /\ retry.pc = "raised"
    /\ should_retry(ctx) /\ ~ctx.raised
    /\ ctx' = handle_error(ctx, [kind |-> retry.raised.type, call |-> retry.calls])
    /\ UNCHANGED <<retry, repo, repoHistVars, schedVars, crawlVars, notice>>

(***************************************************************************)
(* storage/json_storage.py : JsonStorage (single-file mode, the default;   *)
(* raise_on_duplicate = False, the default the orchestrator never changes) *)
(***************************************************************************)

\* Line 143: the buffer length at which save flushes.
FlushThreshold == 10

\* Number of distinct bid_notice_id values offered to the storage.
NumIds == 11

\* A stored record: its bid_notice_id, its crawl_success field and its
\* crawl_error, None or the text of the RetryError (a full
\* detail or a partial one).
Record(id, ok) ==
    [id |-> id, crawl_success |-> ok,
     crawl_error |-> IF ok THEN NONE ELSE "RetryError"]

RepoNew == [id_cache |-> {}, buffer |-> <<>>, file |-> <<>>]

IdsOf(recs) == {recs[i].id : i \in 1..Len(recs)}

\* JsonStorage(output_dir, filename) on an output file holding `file`:
\* _load_id_cache hydrates the cache, the buffer starts empty.
JsonStorage(file) == [id_cache |-> IdsOf(file), buffer |-> <<>>, file |-> file]

\* An exists that would look at the output file only.
exists_mut(r, id) == id \in IdsOf(r.file)

\* exists(bid_id): the id cache covers the buffer and the file.
exists(r, id) == id \in r.id_cache

RECURSIVE NotIn(_, _)
\* [item for item in buffer if item id not in ids], order kept.
NotIn(recs, ids) ==
    IF recs = <<>> THEN <<>>
    ELSE IF Head(recs).id \in ids THEN NotIn(Tail(recs), ids)
    ELSE <<Head(recs)>> \o NotIn(Tail(recs), ids)

\* What writing the output file can do (lines 265-273): it works; open()
\* fails and the file is as before; or open(..., "w") has truncated the
\* file and json.dump fails, which leaves a file that does not parse.
IoOutcomes == {"ok", "denied", "torn"}

\* flush: gives the storage afterwards and whether RepositoryException was
\* raised.  `file` is the content as _load_single_raw reads it: a file that
\* does not parse reads as the empty list (lines 382-384).
flush(r, io) ==
    IF r.buffer = <<>>
    THEN [repo |-> r, raised |-> FALSE]
    ELSE IF io = "ok"
    THEN [repo |-> [r EXCEPT !.file = r.file \o NotIn(r.buffer, IdsOf(r.file)),
                             !.buffer = <<>>],
          raised |-> FALSE]
    ELSE IF io = "denied"
    THEN [repo |-> r, raised |-> TRUE]
    ELSE [repo |-> [r EXCEPT !.file = <<>>], raised |-> TRUE]

\* save(bid): ret is the value returned; raised tells the flush inside failed.
save(r, rec, io) ==
    IF exists(r, rec.id)
    THEN [repo |-> r, ret |-> FALSE, raised |-> FALSE]
    ELSE LET r1 == [r EXCEPT !.buffer = Append(@, rec),
                             !.id_cache = @ \cup {rec.id}]
         IN  IF Len(r1.buffer) >= FlushThreshold
             THEN LET f == flush(r1, io)
                  IN  [repo |-> f.repo, ret |-> ~f.raised, raised |-> f.raised]
             ELSE [repo |-> r1, ret |-> TRUE, raised |-> FALSE]

RECURSIVE save_batch(_, _, _)
\* save_batch(bids): the count of saves that returned True; a
\* RepositoryException of a save ends the loop and propagates.
save_batch(r, recs, io) ==
    IF recs = <<>>
    THEN [repo |-> r, count |-> 0, raised |-> FALSE, accepted |-> {}]
    ELSE LET s == save(r, Head(recs), io)
         IN  IF s.raised
             THEN [repo |-> s.repo, count |-> 0, raised |-> TRUE, accepted |-> {}]
             ELSE LET rest == save_batch(s.repo, Tail(recs), io)
                  IN  [repo |-> rest.repo,
                       count |-> rest.count + (IF s.ret THEN 1 ELSE 0),
                       raised |-> rest.raised,
                       accepted |-> rest.accepted \cup
                                    (IF s.ret THEN {Head(recs).id} ELSE {})]

close(r, io) == flush(r, io)

\* The records the storage holds, the file first.
Stored(r) == r.file \o r.buffer

\* What the caller has seen: the ids save returned True for, the first
\* record the storage took in for each id, and the last operation.
RepoHistNew == [saved_true |-> {}, first |-> {}, last |-> [op |-> "new"]]

\* The first records after rec was offered to a storage that is now r.
\* The last operation was a flush or close that returned.
Flushed == repoHist.last.op \in {"flush", "close"} /\ ~repoHist.last.raised

FirstAfter(first, rec, r) ==
    IF rec.id \notin {f.id : f \in first} /\ rec \in Range(Stored(r))
    THEN first \cup {rec} ELSE first

\* Ids are interchangeable: a new id is always the next unused number.
OfferedIds == 1..Min(Cardinality(repo.id_cache) + 1, NumIds)

\* The first record offered for an id is a full one, a later one any.
OfferedRecs ==
    {rec \in {Record(i, ok) : i \in OfferedIds, ok \in BOOLEAN} :
       rec.crawl_success \/ rec.id \in repo.id_cache}

RepoSave ==
    /\ \E rec \in OfferedRecs, io \in IoOutcomes :
         LET s == save(repo, rec, io)
         IN  /\ repo' = s.repo
             /\ repoHist' =
                  [saved_true |-> repoHist.saved_true \cup
                                  (IF s.ret /\ ~s.raised THEN {rec.id} ELSE {}),
                   first |-> FirstAfter(repoHist.first, rec, s.repo),
                   last |-> [op |-> "save", id |-> rec.id,
                             existed |-> rec.id \in IdsOf(Stored(repo)),
                             ret |-> s.ret, raised |-> s.raised]]
    /\ UNCHANGED <<retryVars, schedVars, crawlVars, domainVars>>

RepoSaveBatch ==
    /\ \E a \in OfferedRecs, b \in OfferedRecs, io \in IoOutcomes :
         LET s == save_batch(repo, <<a, b>>, io)
         IN  /\ a.crawl_success
             /\ repo' = s.repo
             /\ repoHist' =
                  [saved_true |-> repoHist.saved_true \cup s.accepted,
                   first |-> FirstAfter(FirstAfter(repoHist.first, a, s.repo),
                                        b, s.repo),
                   last |-> [op |-> "save_batch", count |-> s.count,
                             raised |-> s.raised]]
    /\ UNCHANGED <<retryVars, schedVars, crawlVars, domainVars>>

RepoFlush ==
    /\ \E io \in IoOutcomes :
         LET f == flush(repo, io)
         IN  /\ repo' = f.repo
             /\ repoHist' = [repoHist EXCEPT
                               !.last = [op |-> "flush", raised |-> f.raised,
                                         after_flush |-> Flushed,
                                         changed |-> f.repo.file # repo.file]]
    /\ UNCHANGED <<retryVars, schedVars, crawlVars, domainVars>>

RepoClose ==
    /\ \E io \in IoOutcomes :
         LET f == close(repo, io)
         IN  /\ repo' = f.repo
             /\ repoHist' = [repoHist EXCEPT
                               !.last = [op |-> "close", raised |-> f.raised,
                                         after_flush |-> Flushed,
                                         changed |-> f.repo.file # repo.file]]
    /\ UNCHANGED <<retryVars, schedVars, crawlVars, domainVars>>

(***************************************************************************)
(* scheduler/cron.py : CrawlScheduler.  start() registers _crawl_job with  *)
(* add_job and no max_instances argument, so the AsyncIOScheduler runs at  *)
(* most MaxInstances instances of the job it submitted itself; a run that  *)
(* start() awaits directly is not one of them.                             *)
(***************************************************************************)

\* add_job(...) at line 118 passes no max_instances: APScheduler's default.
MaxInstances == 1

\* Trigger ticks the model lets fire.
MaxTicks == 4

SchedIdle ==
    [running |-> FALSE,       \* self._running
     aps_instances |-> 0,     \* instances of crawl_job the scheduler submitted
     runs |-> {},             \* the _crawl_job calls inside BidCrawler.run
     started |-> 0, ticks |-> 0, dropped |-> 0, finished |-> 0]

\* A _crawl_job call entering crawler.run(resume=True).
crawl_job_begin(s, via) ==
    [s EXCEPT !.runs = @ \cup {[n |-> s.started + 1, via |-> via]},
              !.started = @ + 1]

\* start(run_immediately): the job is registered, the scheduler started,
\* and with run_immediately the first _crawl_job is awaited directly.
start(s, run_immediately) ==
    IF s.running THEN s
    ELSE LET s1 == [s EXCEPT !.running = TRUE]
         IN  IF run_immediately THEN crawl_job_begin(s1, "direct") ELSE s1

\* The trigger fires: the scheduler submits crawl_job unless MaxInstances
\* instances it submitted are still running; then the tick is skipped.
trigger_fires(s) ==
    IF s.aps_instances >= MaxInstances
    THEN [s EXCEPT !.ticks = @ + 1, !.dropped = @ + 1]
    ELSE [crawl_job_begin(s, "trigger") EXCEPT !.ticks = @ + 1,
                                              !.aps_instances = @ + 1]

\* A _crawl_job call returns (crawler.run returned or raised; line 76
\* swallows the exception).
crawl_job_end(s, r) ==
    [s EXCEPT !.runs = @ \ {r},
              !.finished = @ + 1,
              !.aps_instances = IF r.via = "trigger" THEN @ - 1 ELSE @]

\* stop(): scheduler.shutdown(wait=False); running jobs are not awaited.
stop(s) == IF s.running THEN [s EXCEPT !.running = FALSE] ELSE s

SchedStart ==
    /\ ~sched.running
    /\ sched.started < MaxTicks
    /\ \E run_immediately \in BOOLEAN : sched' = start(sched, run_immediately)
    /\ UNCHANGED <<retryVars, repo, repoHistVars, crawlVars, domainVars>>

SchedTick ==
    /\ sched.running
    /\ sched.ticks < MaxTicks
    /\ sched' = trigger_fires(sched)
    /\ UNCHANGED <<retryVars, repo, repoHistVars, crawlVars, domainVars>>

SchedRunEnds ==
    /\ \E r \in sched.runs : sched' = crawl_job_end(sched, r)
    /\ UNCHANGED <<retryVars, repo, repoHistVars, crawlVars, domainVars>>

SchedStop ==
    /\ sched.running
    /\ sched' = stop(sched)
    /\ UNCHANGED <<retryVars, repo, repoHistVars, crawlVars, domainVars>>

(***************************************************************************)
(* models/crawl_state.py : CrawlState, CrawlProgress, CrawlStatistics      *)
(* (the timestamps and the never written list_collected, detail_collected, *)
(* keyword and bid_type fields are left out)                               *)
(***************************************************************************)

CrawlProgress ==
    [current_page |-> 1, current_index |-> 0,
     total_pages |-> NoInt, last_completed_page |-> 0]

CrawlStatistics ==
    [total_collected |-> 0, errors |-> 0, retries |-> 0, skipped_duplicates |-> 0]

\* CrawlState(run_id=..., is_running=...)
CrawlState(run_id, is_running) ==
    [run_id |-> run_id, is_running |-> is_running, is_completed |-> FALSE,
     last_error |-> NONE, progress |-> CrawlProgress,
     statistics |-> CrawlStatistics, collected_ids |-> {}, failed_items |-> <<>>]

is_collected(st, bid_id) == bid_id \in st.collected_ids

\* A mark_collected that would count an id it holds already.
mark_collected_mut(st, bid_id) ==
    [st EXCEPT !.collected_ids = @ \cup {bid_id},
               !.statistics.total_collected = @ + 1]

\* mark_collected: the state afterwards; MarkCollectedRet is its return value.
mark_collected(st, bid_id) ==
    IF bid_id \in st.collected_ids
    THEN [st EXCEPT !.statistics.skipped_duplicates = @ + 1]
    ELSE [st EXCEPT !.collected_ids = @ \cup {bid_id},
                    !.statistics.total_collected = @ + 1]

MarkCollectedRet(st, bid_id) == bid_id \notin st.collected_ids

\* A value inside an item_info dict (Dict[str, Any]): a string, or an object
\* that json has no native form for, such as a datetime.  NoInfo: no dict.
NoInfo == [t |-> "none", v |-> 0]
StrInfo(v) == [t |-> "str", v |-> v]
ObjInfo(v) == [t |-> "datetime", v |-> v]

\* record_error(error, item_info): item_info NoInfo when not given, else the
\* bid_id of the item.
record_error(st, error, item_info) ==
    [st EXCEPT !.statistics.errors = @ + 1,
               !.last_error = error,
               !.failed_items = IF item_info.t # "none"
                                THEN Append(@, [info |-> item_info, error |-> error])
                                ELSE @]

record_retry(st) == [st EXCEPT !.statistics.retries = @ + 1]

\* update_progress(page, index, total_pages): NoInt for an argument not given.
update_progress(st, page, index, total_pages) ==
    [st EXCEPT !.progress.current_page = IF page # NoInt THEN page ELSE @,
               !.progress.current_index = IF index # NoInt THEN index ELSE @,
               !.progress.total_pages = IF total_pages # NoInt THEN total_pages ELSE @]

\* A complete_page that does not move last_completed_page.
complete_page_mut(st, page) == [st EXCEPT !.progress.current_index = 0]

complete_page(st, page) ==
    [st EXCEPT !.progress.last_completed_page = page,
               !.progress.current_index = 0]

\* A mark_completed that leaves is_running as it is.
mark_completed_mut(st) == [st EXCEPT !.is_completed = TRUE]

mark_completed(st) == [st EXCEPT !.is_completed = TRUE, !.is_running = FALSE]

(***************************************************************************)
(* storage/state_manager.py : StateManager.  A file on disk is absent,     *)
(* unparsable, or holds a CrawlState.                                      *)
(***************************************************************************)

NOFILE == [kind |-> "nofile"]
CORRUPT == [kind |-> "corrupt"]

RECURSIVE ListOf(_)
\* list(collected_ids): the elements in some order, here the ascending one.
ListOf(S) ==
    IF S = {} THEN <<>>
    ELSE LET x == CHOOSE x \in S : \A y \in S : x <= y
         IN  <<x>> \o ListOf(S \ {x})

\* json.dump(..., default=str) on a value: an object json cannot write
\* natively is written as its str().
JsonValue(v) == IF v.t = "datetime" THEN StrInfo(v.v) ELSE v

\* save() lines 143-154: model_dump, collected_ids as a list, json.dump.
JsonOf(st) ==
    LET items == st.failed_items
    IN  [st EXCEPT !.collected_ids = ListOf(@),
                   !.failed_items =
                       [i \in 1..Len(items) |->
                          [info |-> JsonValue(items[i].info),
                           error |-> items[i].error]]]

\* A load that does not restore the statistics.
FromJson_mut(doc) ==
    [doc EXCEPT !.collected_ids = Range(@), !.statistics = CrawlStatistics]

\* load() lines 90-104: json.load, collected_ids as a set, CrawlState(**data).
FromJson(doc) == [doc EXCEPT !.collected_ids = Range(@)]

FileOf(st) == [kind |-> "state", content |-> JsonOf(st)]

\* The CrawlState a file that parses holds.
StateOf(f) == FromJson(f.content)

Parses(f) == f.kind = "state"

\* save(): the existing state file is copied to the backup, then the state
\* is written.  Gives the two files afterwards and what save() returns.
\* io is what the file system does at line 152: "ok", "denied" (open fails,
\* the file is untouched) or "torn" (open truncated the file and the dump
\* failed); every exception is caught at line 158 and save() returns False.
sm_save(st, sf, bf, io) ==
    [state_file |-> IF io = "ok" THEN FileOf(st)
                    ELSE IF io = "torn" THEN CORRUPT ELSE sf,
     backup_file |-> IF sf.kind # "nofile" THEN sf ELSE bf,
     ret |-> io = "ok"]

\* Nested calls of load() the interpreter allows before RecursionError.
RecursionLimit == 3

RECURSIVE load(_, _, _)
\* load() as call number `depth` of a nest: the file loaded (NOFILE for
\* None), the state file afterwards, the calls made, and whether an
\* exception leaves the call.  A state file that does not parse is replaced
\* by the backup when there is one, and load() calls itself (lines 111-114);
\* what the inner call raises is caught at line 115 and None is returned.
load(sf, bf, depth) ==
    IF depth > RecursionLimit
    THEN [loaded |-> NOFILE, state_file |-> sf, calls |-> depth, raised |-> TRUE]
    ELSE IF sf.kind = "nofile" \/ Parses(sf)
    THEN [loaded |-> sf, state_file |-> sf, calls |-> depth, raised |-> FALSE]
    ELSE IF bf.kind = "nofile"
    THEN [loaded |-> NOFILE, state_file |-> sf, calls |-> depth, raised |-> FALSE]
    ELSE LET inner == load(bf, bf, depth + 1)
         IN  [inner EXCEPT !.loaded = IF inner.raised THEN NOFILE ELSE @,
                           !.raised = FALSE]

\* A load that never looks at the backup.
sm_load_mut(sf, bf) == load(sf, NOFILE, 1)

\* load() called from outside.
sm_load(sf, bf) == load(sf, bf, 1)

\* An initialize that takes up a state whatever its is_completed.
initialize_mut(run_id, resume, sf, bf) ==
    LET l == sm_load(sf, bf)
    IN  IF resume /\ sf.kind # "nofile" /\ Parses(l.loaded)
        THEN [state |-> [StateOf(l.loaded) EXCEPT !.is_running = TRUE,
                                                !.run_id = run_id],
              state_file |-> l.state_file, resumed |-> TRUE]
        ELSE [state |-> CrawlState(run_id, TRUE),
              state_file |-> IF resume THEN l.state_file ELSE sf,
              resumed |-> FALSE]

\* initialize(run_id, resume): the state in memory, the state file, and
\* whether the previous state was taken up.
initialize(run_id, resume, sf, bf) ==
    LET l == sm_load(sf, bf)
    IN  IF resume /\ sf.kind # "nofile" /\ Parses(l.loaded)
           /\ ~StateOf(l.loaded).is_completed
        THEN [state |-> [StateOf(l.loaded) EXCEPT !.is_running = TRUE,
                                                !.run_id = run_id],
              state_file |-> l.state_file, resumed |-> TRUE]
        ELSE [state |-> CrawlState(run_id, TRUE),
              state_file |-> IF resume THEN l.state_file ELSE sf,
              resumed |-> FALSE]

get_resume_point(st) ==
    [page |-> st.progress.current_page, index |-> st.progress.current_index]

(***************************************************************************)
(* crawler.py : the pipeline of BidCrawler._execute_crawl_pipeline.        *)
(* The coroutines run on one event loop: a step of the model is what one   *)
(* coroutine does between two points where it really suspends (browser     *)
(* I/O, a sleep, get on an empty queue, put on a full queue, gather).      *)
(* Every listed notice has a detail_url.                                   *)
(***************************************************************************)

\* Bounds of the configurations and of the environment.
MaxWorkers == 2
MaxQueueSize == 2
MaxItemsBound == 1
MaxFaults == 1

\* The pages the site serves: the bid_notice_id of every row.
Listings == { << <<1>>, <<2, 3>> >>, << <<1, 2>>, <<1>> >> }

\* Single runs under every limit, with failures injected and interrupts.
SingleRunConfigs ==
    [max_workers : 1..MaxWorkers,
     queue_size : 1..MaxQueueSize,
     max_items : {NoInt} \cup 0..MaxItemsBound,
     max_pages : {NoInt},
     save_interval : {2},
     max_retries : {0},
     listing : Listings,
     max_runs : {1},
     faults : {MaxFaults}]

\* A run that is interrupted or killed, and the run that follows it.
ResumeConfigs ==
    [max_workers : 1..MaxWorkers,
     queue_size : {MaxQueueSize},
     max_items : {NoInt},
     max_pages : {NoInt},
     save_interval : {2},
     max_retries : {0},
     listing : Listings,
     max_runs : {2},
     faults : {0}]

Configs == SingleRunConfigs \cup ResumeConfigs

\* Listings with pairwise distinct ids.
CleanListings ==
    { << <<1>>, <<2, 3>> >>, << <<1, 2>>, <<3>> >> }

\* One run without limits in which nothing fails and nothing interrupts.
CleanConfigs ==
    [max_workers : 1..MaxWorkers,
     queue_size : 1..MaxQueueSize,
     max_items : {NoInt},
     max_pages : {NoInt},
     save_interval : {2},
     max_retries : {0},
     listing : CleanListings,
     max_runs : {1},
     faults : {0}]

Workers == 1..cfg.max_workers

\* Python truth of an Optional[int] setting: None and 0 are false.
Truthy(x) == x # NoInt /\ x # 0

Task(id, page_num, index) == [id |-> id, page_num |-> page_num, index |-> index]

\* The None the orchestrator enqueues to end a worker.
Sentinel == Task(0, 0, 0)

\* A queue that takes one entry more than maxsize.
full_mut(queue) == Len(queue) > cfg.queue_size

\* asyncio.Queue(maxsize=queue_size).full(): put suspends while it holds.
full(queue) == Len(queue) >= cfg.queue_size

NumPages == Len(cfg.listing)

\* All the variables a pipeline step reads and writes, as one record.
Cur ==
    [state |-> state, state_file |-> state_file, backup_file |-> backup_file,
     repo |-> repo, task_queue |-> task_queue, unfinished |-> unfinished,
     items_collected |-> items_collected, current_page |-> current_page,
     page_items |-> page_items, prod |-> prod, wk |-> wk, faults |-> faults,
     hist |-> hist, phase |-> phase]

Commit(m) ==
    /\ state' = m.state
    /\ state_file' = m.state_file
    /\ backup_file' = m.backup_file
    /\ repo' = m.repo
    /\ task_queue' = m.task_queue
    /\ unfinished' = m.unfinished
    /\ items_collected' = m.items_collected
    /\ current_page' = m.current_page
    /\ page_items' = m.page_items
    /\ prod' = m.prod
    /\ wk' = m.wk
    /\ faults' = m.faults
    /\ hist' = m.hist
    /\ phase' = m.phase

\* StateManager.save() on the machine.
SaveState(m) ==
    LET f == sm_save(m.state, m.state_file, m.backup_file, "ok")
    IN  [m EXCEPT !.state_file = f.state_file, !.backup_file = f.backup_file]

\* An injected failure uses up one of the faults left.
Fault(m, ok) == IF ok THEN m ELSE [m EXCEPT !.faults = @ - 1]

\* Lines 478 and 549: max_items is set and reached.
MaxItemsReached(m) ==
    Truthy(cfg.max_items) /\ m.items_collected >= cfg.max_items

\* asyncio.Queue.task_done raises ValueError when nothing is unfinished.
TaskDoneRaises(m) == m.unfinished <= 0
task_done(m) == [m EXCEPT !.unfinished = @ - 1]

\* The worker's position.  Outside process() the local `task` is not read
\* again before the next get() assigns it, so it is kept at its idle value.
SetWorker(m, w, pc) ==
    IF pc \in {"scrape", "go_back"}
    THEN [m EXCEPT !.wk[w].pc = pc]
    ELSE [m EXCEPT !.wk[w] = [pc |-> pc, task |-> Sentinel, attempt |-> 0]]

\* An exception leaves worker(): its task ends with that exception.
WorkerDies(m, w) == SetWorker(m, w, "dead")

\* Lines 482-505 for a task just dequeued: the page change is noted, and
\* process() runs up to its first suspension: a collected id returns None
\* at once (the worker then sleeps batch_delay), another one records its
\* index and enters retry_async(scrape_from_url).
worker_begin(m, w, task) ==
    LET m1 == IF task.page_num # m.current_page
              THEN [m EXCEPT !.current_page = task.page_num, !.page_items = 0]
              ELSE m
        m2 == [m1 EXCEPT !.wk[w].task = task, !.wk[w].attempt = 0]
    IN  IF is_collected(m2.state, task.id)
        THEN SetWorker(m2, w, "batch_sleep")
        ELSE [SetWorker(m2, w, "scrape") EXCEPT
                !.state = update_progress(@, NoInt, task.index, NoInt)]

RECURSIVE worker_loop(_, _)
\* The while loop of worker() from task_queue.get() (line 467) to the next
\* suspension.  With max_items reached, line 479 calls task_done and
\* continues, and the finally of line 537 calls task_done again.
worker_loop(m, w) ==
    IF m.task_queue = <<>>
    THEN SetWorker(m, w, "get")
    ELSE LET task == Head(m.task_queue)
             m1 == [m EXCEPT !.task_queue = Tail(@)]
         IN  IF task = Sentinel
             THEN IF TaskDoneRaises(m1)
                  THEN WorkerDies(m1, w)
                  ELSE SetWorker(task_done(m1), w, "done")
             ELSE IF MaxItemsReached(m1)
             THEN IF TaskDoneRaises(m1)
                  THEN WorkerDies(m1, w)
                  ELSE IF TaskDoneRaises(task_done(m1))
                  THEN WorkerDies(task_done(m1), w)
                  ELSE worker_loop(task_done(task_done(m1)), w)
             ELSE worker_begin(m1, w, task)

\* The finally of line 537, then the next turn of the loop.
worker_finally(m, w) ==
    IF TaskDoneRaises(m) THEN WorkerDies(m, w) ELSE worker_loop(task_done(m), w)

\* process() lines 215-218 and worker() lines 507-530 for a detail that was
\* produced: save, mark_collected, the counters, and every save_interval
\* items flush and StateManager.save; then the batch_delay sleep.  io tells
\* whether writing the output file works; a RepositoryException is caught
\* at line 532 and the loop goes on without the sleep.
worker_detail(m, w, crawl_success, io) ==
    LET id == m.wk[w].task.id
        s  == save(m.repo, Record(id, crawl_success), io)
        m1 == [m EXCEPT !.repo = s.repo,
                        !.hist.saved = IF s.ret /\ ~s.raised
                                       THEN @ \cup {id} ELSE @]
    IN  IF s.raised
        THEN worker_finally([m1 EXCEPT !.hist.repo_raised = @ + 1], w)
        ELSE LET m2 == [m1 EXCEPT !.state = mark_collected(@, id),
                                  !.items_collected = @ + 1,
                                  !.page_items = @ + 1,
                                  !.hist.processed = @ + 1]
             IN  IF m2.items_collected % cfg.save_interval = 0
                 THEN LET f == flush(m2.repo, io)
                      IN  IF f.raised
                          THEN worker_finally(
                                 [m2 EXCEPT !.repo = f.repo,
                                            !.hist.repo_raised = @ + 1], w)
                          ELSE SetWorker(
                                 SaveState([m2 EXCEPT !.repo = f.repo]),
                                 w, "batch_sleep")
                 ELSE SetWorker(m2, w, "batch_sleep")

\* _crawl_detail: one attempt of retry_async(scrape_from_url) ends (ok or
\* not).  A failure with attempts left calls on_retry (record_retry) and
\* sleeps; the last failure is the RetryError of line 270: record_error
\* with the item, and a partial detail.  A success goes on to page.go_back.
worker_scrape(m, w, ok, io) ==
    LET id == m.wk[w].task.id
        r  == [RetryStart([RetryIdle.args EXCEPT
                             !.max_retries = cfg.max_retries,
                             !.has_on_retry = TRUE])
                 EXCEPT !.attempt = m.wk[w].attempt]
        r1 == retry_async_attempt(r, IF ok THEN "ok" ELSE "R", 0)
        m1 == [m EXCEPT !.hist.rescraped = IF id \in m.hist.saved_prev
                                              /\ m.hist.resumed
                                           THEN @ \cup {id} ELSE @]
    IN  IF r1.pc = "returned"
        THEN SetWorker(m1, w, "go_back")
        ELSE IF r1.pc = "sleep"
        THEN [m1 EXCEPT !.state = IF Len(r1.on_retry_calls) > 0
                                  THEN record_retry(@) ELSE @,
                        !.wk[w].attempt = @ + 1]
        ELSE worker_detail(
               [m1 EXCEPT !.state = record_error(@, "RetryError", StrInfo(id))],
               w, FALSE, io)

\* page.go_back() ends.  When it raises, line 285 returns None and the
\* detail is not saved; else the detail is returned after the 0.5 s sleep.
worker_go_back(m, w, ok, io) ==
    IF ok THEN worker_detail(m, w, TRUE, io)
    ELSE SetWorker(m, w, "batch_sleep")

\* The finally of lines 556-562 begins: max_workers sentinels are to be put.
\* put(None) suspends when the queue is full; after the last one comes
\* gather(*workers).
RECURSIVE put_sentinels(_)
put_sentinels(m) ==
    IF m.prod.sentinels_left = 0
    THEN [m EXCEPT !.prod.pc = "gather"]
    ELSE IF full(m.task_queue)
    THEN [m EXCEPT !.prod.pc = "sentinel"]
    ELSE put_sentinels([m EXCEPT !.task_queue = Append(@, Sentinel),
                                 !.unfinished = @ + 1,
                                 !.prod.sentinels_left = @ - 1,
                                 !.hist.sentinels = @ + 1])

\* The async for over produce_tasks is left (the generator ended, the
\* break of line 551, or an exception thrown in at an await).
producer_finish(m, exc) ==
    put_sentinels([m EXCEPT !.prod.sentinels_left = cfg.max_workers,
                            !.prod.exc = exc])

Enqueue(m, task) ==
    [m EXCEPT !.task_queue = Append(@, task), !.unfinished = @ + 1]

RECURSIVE producer_emit(_)
\* produce_tasks lines 140-153 with the loop body of lines 546-554: the
\* tasks of the page from index prod.idx on are yielded and put; put
\* suspends on a full queue.  After the last one complete_page saves the
\* state, and the generator ends or moves to the next page.
producer_emit(m) ==
    LET p == m.prod.page
        items == cfg.listing[p]
        i == m.prod.idx
    IN  IF i >= Len(items)
        THEN LET m1 == SaveState([m EXCEPT !.state = complete_page(@, p)])
             IN  IF p < NumPages
                 THEN [m1 EXCEPT !.prod.pc = "next"]
                 ELSE producer_finish(m1, NONE)
        ELSE IF MaxItemsReached(m)
        THEN producer_finish(m, NONE)
        ELSE IF full(m.task_queue)
        THEN [m EXCEPT !.prod.pc = "put"]
        ELSE producer_emit([Enqueue(m, Task(items[i + 1], p, i))
                              EXCEPT !.prod.idx = i + 1])

\* put(task) resumes: the task is enqueued without a second look at
\* max_items, and the loop goes on.
producer_put_resumes(m) ==
    LET p == m.prod.page
        i == m.prod.idx
    IN  producer_emit([Enqueue(m, Task(cfg.listing[p][i + 1], p, i))
                         EXCEPT !.prod.idx = i + 1])

\* produce_tasks lines 109-120: the top of the while loop, up to the
\* suspension in retry_async(list_scraper.scrape).
producer_page_start(m) ==
    IF Truthy(cfg.max_pages) /\ m.prod.page > cfg.max_pages
    THEN producer_finish(m, NONE)
    ELSE [m EXCEPT !.state = update_progress(@, m.prod.page, NoInt, NoInt),
                   !.prod.pc = "scrape",
                   !.prod.attempt = 0]

\* One attempt of retry_async(list_scraper.scrape) ends.  The last failure
\* is the RetryError of line 126: record_error, and the generator ends.
producer_scrape(m, ok) ==
    LET r  == [RetryStart([RetryIdle.args EXCEPT
                             !.max_retries = cfg.max_retries,
                             !.has_on_retry = TRUE])
                 EXCEPT !.attempt = m.prod.attempt]
        r1 == retry_async_attempt(r, IF ok THEN "ok" ELSE "R", 0)
        p  == m.prod.page
    IN  IF r1.pc = "returned"
        THEN IF Len(cfg.listing[p]) = 0
             THEN producer_finish(m, NONE)
             ELSE producer_emit(
                    [m EXCEPT !.state = update_progress(@, NoInt, NoInt, NumPages),
                              !.prod.idx = IF p = m.prod.start_page
                                           THEN m.prod.start_index ELSE 0])
        ELSE IF r1.pc = "sleep"
        THEN [m EXCEPT !.state = IF Len(r1.on_retry_calls) > 0
                                 THEN record_retry(@) ELSE @,
                       !.prod.attempt = @ + 1]
        ELSE producer_finish(
               [m EXCEPT !.state = record_error(@, "RetryError", NoInfo)], NONE)

\* go_to_next_page() ends: False ends the generator, True moves on to the
\* sleep of line 156.
producer_next(m, ok) ==
    IF ok THEN [m EXCEPT !.prod.page = @ + 1, !.prod.pc = "sleep"]
    ELSE producer_finish(m, NONE)

\* A pipeline that would reach mark_completed after a KeyboardInterrupt too.
PipelineReturnedMut(kind) == kind \in {"ok", "keyboard"}

\* Line 578 (mark_completed) is reached only when nothing was raised in
\* _execute_crawl_pipeline before it.
PipelineReturned(kind) == kind = "ok"

\* BidCrawler.run lines 386-414 once the pipeline has ended in `kind`:
\* "ok" (it returned: mark_completed), "exception" (record_error, save,
\* re-raise), "keyboard" (KeyboardInterrupt: save), "cancelled"
\* (CancelledError: no except clause matches).  The browser manager's
\* __aexit__ stops the browser and the finally closes the repository.
run_exit(m, kind) ==
    LET m1 == IF PipelineReturned(kind)
              THEN SaveState([m EXCEPT !.state = mark_completed(@)])
              ELSE IF kind = "exception"
              THEN SaveState([m EXCEPT !.state = record_error(@, "crawl_error", NoInfo)])
              ELSE IF kind = "keyboard"
              THEN SaveState(m)
              ELSE m
        c  == close(m1.repo, "ok")
    IN  [m1 EXCEPT !.repo = c.repo,
                   !.phase = "idle",
                   !.prod.pc = "exited",
                   !.hist.last_exit =
                       [kind |-> kind,
                        state_saved |-> kind \in {"ok", "exception", "keyboard"},
                        repo_flushed |-> ~c.raised /\ c.repo.buffer = <<>>,
                        browser_closed |-> TRUE]]

ProdIdle ==
    [pc |-> "none", page |-> 1, idx |-> 0, start_page |-> 1, start_index |-> 0,
     attempt |-> 0, sentinels_left |-> 0, exc |-> NONE]

WorkerIdle == [pc |-> "get", task |-> Sentinel, attempt |-> 0]

HistNew ==
    [resumed |-> FALSE,      \* initialize took up the previous state
     saved |-> {},           \* ids Repository.save accepted in this run
     saved_prev |-> {},      \* ids Repository.save accepted in earlier runs
     rescraped |-> {},       \* ids of saved_prev scraped again after a resume
     processed |-> 0,        \* details saved and marked in this run
     sentinels |-> 0,        \* sentinels enqueued in this run
     repo_raised |-> 0,      \* RepositoryExceptions raised to a worker
     last_exit |-> [kind |-> NONE]]

\* BidCrawler(config).run(resume) up to the first suspension of the
\* producer: a new StateManager and a JsonStorage on this run's own output
\* file (bid_notices_<run_id>.json), initialize, the resume point, the
\* queue and the workers (each suspends in get on the empty queue), and the
\* top of produce_tasks.
run_begin(m, run_id, resume) ==
    LET init == initialize(run_id, resume, m.state_file, m.backup_file)
        rp   == get_resume_point(init.state)
    IN  producer_page_start(
          [m EXCEPT !.state = init.state,
                    !.state_file = init.state_file,
                    !.repo = JsonStorage(<<>>),
                    !.task_queue = <<>>,
                    !.unfinished = 0,
                    !.items_collected = 0,
                    !.current_page = rp.page,
                    !.page_items = 0,
                    !.prod = [ProdIdle EXCEPT !.page = rp.page,
                                              !.idx = rp.index,
                                              !.start_page = rp.page,
                                              !.start_index = rp.index],
                    !.wk = [w \in Workers |-> WorkerIdle],
                    !.phase = "running",
                    !.hist = [HistNew EXCEPT
                                !.resumed = init.resumed,
                                !.saved_prev = m.hist.saved_prev \cup m.hist.saved]])

StartRun ==
    /\ phase = "idle"
    /\ run_no < cfg.max_runs
    /\ \E resume \in BOOLEAN : Commit(run_begin(Cur, run_no + 1, resume))
    /\ run_no' = run_no + 1
    /\ archive' = archive \o repo.file
    /\ UNCHANGED <<cfg, retryVars, repoHistVars, schedVars, smHist, domainVars>>

Frame ==
    UNCHANGED <<cfg, run_no, archive, retryVars, repoHistVars, schedVars, smHist,
                domainVars>>

ProducerScrape ==
    /\ phase = "running"
    /\ prod.pc = "scrape"
    /\ \E ok \in BOOLEAN :
         /\ ~ok => faults > 0
         /\ Commit(producer_scrape(Fault(Cur, ok), ok))
    /\ Frame

ProducerPutResumes ==
    /\ phase = "running"
    /\ prod.pc = "put"
    /\ ~full(task_queue)
    /\ Commit(producer_put_resumes(Cur))
    /\ Frame

ProducerNext ==
    /\ phase = "running"
    /\ prod.pc = "next"
    /\ \E ok \in BOOLEAN :
         /\ ~ok => faults > 0
         /\ Commit(producer_next(Fault(Cur, ok), ok))
    /\ Frame

ProducerWake ==
    /\ phase = "running"
    /\ prod.pc = "sleep"
    /\ Commit(producer_page_start(Cur))
    /\ Frame

ProducerSentinelResumes ==
    /\ phase = "running"
    /\ prod.pc = "sentinel"
    /\ ~full(task_queue)
    /\ Commit(put_sentinels(Cur))
    /\ Frame

AnyWorkerDead == \E w \in Workers : wk[w].pc = "dead"
AllWorkersDone == \A w \in Workers : wk[w].pc = "done"

\* gather(*workers) returns when every worker has returned and raises as
\* soon as one has ended with an exception; then run handles the outcome.
ProducerGather ==
    /\ phase = "running"
    /\ prod.pc = "gather"
    /\ IF AnyWorkerDead THEN TRUE ELSE AllWorkersDone
    /\ Commit(run_exit(Cur, IF AnyWorkerDead THEN "exception"
                            ELSE IF prod.exc # NONE THEN prod.exc
                            ELSE "ok"))
    /\ Frame

\* A KeyboardInterrupt or a cancellation reaches the producer where it is
\* suspended inside the async for: the finally of line 556 runs.
Interrupt ==
    /\ phase = "running"
    /\ prod.pc \in {"scrape", "put", "next", "sleep"}
    /\ \E kind \in {"keyboard", "cancelled"} :
         Commit(producer_finish(Cur, kind))
    /\ Frame

WorkerGet(w) ==
    /\ phase = "running"
    /\ wk[w].pc = "get"
    /\ task_queue # <<>>
    /\ Commit(worker_loop(Cur, w))
    /\ Frame

WorkerScrape(w) ==
    /\ phase = "running"
    /\ wk[w].pc = "scrape"
    /\ \E ok \in BOOLEAN :
         /\ ~ok => faults > 0
         /\ Commit(worker_scrape(Fault(Cur, ok), w, ok, "ok"))
    /\ Frame

WorkerGoBack(w) ==
    /\ phase = "running"
    /\ wk[w].pc = "go_back"
    /\ \E ok \in BOOLEAN, io \in IoOutcomes :
         /\ ~(ok /\ io = "ok") => faults > 0
         /\ ~ok => io = "ok"
         /\ Commit(worker_go_back(Fault(Cur, ok /\ io = "ok"), w, ok, io))
    /\ Frame

WorkerWake(w) ==
    /\ phase = "running"
    /\ wk[w].pc = "batch_sleep"
    /\ Commit(worker_finally(Cur, w))
    /\ Frame

\* The process dies: what is in memory is lost (the write buffer of the
\* repository too), the files stay.
Crash ==
    /\ phase = "running"
    /\ run_no < cfg.max_runs
    /\ phase' = "idle"
    /\ repo' = JsonStorage(repo.file)
    /\ state' = CrawlState(0, FALSE)
    /\ task_queue' = <<>>
    /\ unfinished' = 0
    /\ items_collected' = 0
    /\ current_page' = 1
    /\ page_items' = 0
    /\ prod' = ProdIdle
    /\ wk' = [w \in Workers |-> WorkerIdle]
    /\ hist' = [hist EXCEPT !.last_exit = [kind |-> "crash"]]
    /\ UNCHANGED <<state_file, backup_file, faults>>
    /\ Frame

PipelineStep ==
    \/ ProducerScrape
    \/ ProducerPutResumes
    \/ ProducerNext
    \/ ProducerWake
    \/ ProducerSentinelResumes
    \/ ProducerGather
    \/ \E w \in Workers : WorkerGet(w)
    \/ \E w \in Workers : WorkerScrape(w)
    \/ \E w \in Workers : WorkerGoBack(w)
    \/ \E w \in Workers : WorkerWake(w)

(***************************************************************************)
(* storage/state_manager.py driven on its own: one StateManager holds the  *)
(* state in memory, its calls come in any order, and load() is called on a *)
(* second StateManager made for the same file.                             *)
(***************************************************************************)

\* Bounds of the calls.
MaxOps == 5
MaxStateIds == 2

SmHistNew == [ops |-> 0, last |-> [op |-> "new"]]

\* What a caller can pass as item_info: nothing, a string, or an object that
\* json cannot write natively.
ItemInfos == {NoInfo, StrInfo(1), ObjInfo(1)}

SmFrame ==
    UNCHANGED <<retryVars, repo, repoHistVars, schedVars, cfg, phase, run_no,
                archive, task_queue, unfinished, items_collected, current_page,
                page_items, prod, wk, faults, hist, domainVars>>

SmCalled(last) == smHist' = [ops |-> smHist.ops + 1, last |-> last]

\* state_manager.save() on the manager in memory.
SmSaveAs(op, st, io) ==
    LET f == sm_save(st, state_file, backup_file, io)
    IN  /\ state' = st
        /\ state_file' = f.state_file
        /\ backup_file' = f.backup_file
        /\ SmCalled([op |-> op, ret |-> f.ret])

SmInitialize ==
    \E run_id \in 1..2, resume \in BOOLEAN :
        LET i == initialize(run_id, resume, state_file, backup_file)
        IN  /\ smHist.ops < MaxOps
            /\ state' = i.state
            /\ state_file' = i.state_file
            /\ SmCalled([op |-> "initialize", run_id |-> run_id,
                         resume |-> resume, sf |-> state_file,
                         bf |-> backup_file])
            /\ UNCHANGED backup_file
            /\ SmFrame

SmMarkCollected ==
    \E id \in 1..MaxStateIds :
        /\ smHist.ops < MaxOps
        /\ state' = mark_collected(state, id)
        /\ SmCalled([op |-> "mark_collected"])
        /\ UNCHANGED <<state_file, backup_file>>
        /\ SmFrame

SmUpdateProgress ==
    \E a \in {<<2, 1, NoInt>>, <<NoInt, NoInt, 2>>} :
        /\ smHist.ops < MaxOps
        /\ state' = update_progress(state, a[1], a[2], a[3])
        /\ SmCalled([op |-> "update_progress"])
        /\ UNCHANGED <<state_file, backup_file>>
        /\ SmFrame

SmRecordError ==
    \E info \in ItemInfos :
        /\ smHist.ops < MaxOps
        /\ state' = record_error(state, "e", info)
        /\ SmCalled([op |-> "record_error"])
        /\ UNCHANGED <<state_file, backup_file>>
        /\ SmFrame

SmCompletePage ==
    /\ smHist.ops < MaxOps
    /\ SmSaveAs("complete_page", complete_page(state, 1), "ok")
    /\ SmFrame

SmMarkCompleted ==
    /\ smHist.ops < MaxOps
    /\ SmSaveAs("mark_completed", mark_completed(state), "ok")
    /\ SmFrame

SmSave ==
    \E io \in IoOutcomes :
        /\ smHist.ops < MaxOps
        /\ SmSaveAs("save", state, io)
        /\ SmFrame

\* StateManager(state_file).load() on a new manager.
SmLoad ==
    LET l == sm_load(state_file, backup_file)
    IN  /\ smHist.ops < MaxOps
        /\ state_file' = l.state_file
        /\ SmCalled([op |-> "load", loaded |-> l.loaded, raised |-> l.raised,
                     calls |-> l.calls, sf |-> state_file, bf |-> backup_file])
        /\ UNCHANGED <<state, backup_file>>
        /\ SmFrame

(***************************************************************************)
(* models/bid_notice.py : BidNotice.transition_to                          *)
(***************************************************************************)

\* Number of bid_notice_id values of the notices tried.
MaxNoticeIds == 3

BidStatus == {"OPEN", "CLOSED", "CANCELLED", "POSTPONED", "REBID", "UNKNOWN"}

BidNotice(id, status) == [bid_notice_id |-> id, status |-> status]

\* A table that also lets a closed notice be opened again.
valid_transitions_mut(status) ==
    IF status = "OPEN" THEN {"CLOSED", "CANCELLED", "POSTPONED"}
    ELSE IF status = "POSTPONED" THEN {"OPEN", "CANCELLED", "REBID"}
    ELSE IF status \in {"REBID", "CLOSED"} THEN {"OPEN"}
    ELSE {}

\* valid_transitions.get(self.status, [])
valid_transitions(status) ==
    IF status = "OPEN" THEN {"CLOSED", "CANCELLED", "POSTPONED"}
    ELSE IF status = "POSTPONED" THEN {"OPEN", "CANCELLED", "REBID"}
    ELSE IF status = "REBID" THEN {"OPEN"}
    ELSE {}

\* self.transition_to(new_status): whether InvalidBidDataException is
\* raised, the notice returned (model_copy with the new status), and self
\* afterwards.
transition_to(self, new_status) ==
    IF new_status \notin valid_transitions(self.status)
    THEN [raised |-> TRUE, ret |-> BidNotice(0, "UNKNOWN"), self |-> self]
    ELSE [raised |-> FALSE, ret |-> [self EXCEPT !.status = new_status],
          self |-> self]

NoticeOff == [self |-> BidNotice(0, "UNKNOWN"), last |-> [op |-> "new"]]

\* transition_to is called on the notice at hand; the caller goes on with
\* the notice returned or keeps the one it had.
NoticeTransition ==
    \E new_status \in BidStatus, keep \in BOOLEAN :
        LET t == transition_to(notice.self, new_status)
        IN  /\ notice' = [self |-> IF keep \/ t.raised THEN t.self ELSE t.ret,
                          last |-> [op |-> "transition_to",
                                    before |-> notice.self,
                                    new_status |-> new_status,
                                    raised |-> t.raised,
                                    ret |-> t.ret,
                                    after |-> t.self]]
            /\ UNCHANGED <<retry, repo, repoHist, sched, crawlVars, ctx>>

(***************************************************************************)
(* The specifications                                                      *)
(***************************************************************************)

CrawlOff ==
    /\ cfg = [max_workers |-> 1, queue_size |-> 1, max_items |-> NoInt,
              max_pages |-> NoInt, save_interval |-> 1, max_retries |-> 0,
              listing |-> << <<1>> >>, max_runs |-> 0, faults |-> 0]
    /\ phase = "off"
    /\ run_no = 0
    /\ state = CrawlState(0, FALSE)
    /\ state_file = NOFILE
    /\ backup_file = NOFILE
    /\ archive = <<>>
    /\ task_queue = <<>>
    /\ unfinished = 0
    /\ items_collected = 0
    /\ current_page = 1
    /\ page_items = 0
    /\ prod = ProdIdle
    /\ wk = [w \in {1} |-> WorkerIdle]
    /\ faults = 0
    /\ hist = HistNew
    /\ smHist = SmHistNew
    /\ notice = NoticeOff

RetryOff == retry = RetryIdle /\ ctx = CtxIdle
RepoOff  == repo = RepoNew /\ repoHist = RepoHistNew
SchedOff == sched = SchedIdle

\* retry_async called with every argument combination.
InitRetry ==
    /\ retry \in {RetryStart(a) : a \in RetryArgs}
    /\ ctx \in {CtxIdle} \cup
               (IF retry.args = ExecuteArgs(retry.args)
                THEN {RetryContext(retry.args.max_retries, TRUE)} ELSE {})
    /\ RepoOff /\ SchedOff /\ CrawlOff

NextRetry == RetryInvoke \/ RetryWake \/ RetryHandleError

SpecRetry == InitRetry /\ [][NextRetry]_vars

\* A JsonStorage on an empty directory.
InitRepo ==
    /\ repo = RepoNew /\ repoHist = RepoHistNew
    /\ RetryOff /\ SchedOff /\ CrawlOff

NextRepo == RepoSave \/ RepoSaveBatch \/ RepoFlush \/ RepoClose

SpecRepo == InitRepo /\ [][NextRepo]_vars

\* A CrawlScheduler just constructed.
InitSched ==
    /\ sched = SchedIdle
    /\ RetryOff /\ RepoOff /\ CrawlOff

NextSched == SchedStart \/ SchedTick \/ SchedRunEnds \/ SchedStop

SpecSched == InitSched /\ [][NextSched]_vars

\* The crawler: runs of BidCrawler.run on one state file, one after the
\* other, each ending by itself, by an interrupt or by a crash.
\* A StateManager on a directory without a state file.
InitState ==
    /\ CrawlOff
    /\ RetryOff /\ RepoOff /\ SchedOff

NextState ==
    \/ SmInitialize
    \/ SmMarkCollected
    \/ SmUpdateProgress
    \/ SmRecordError
    \/ SmCompletePage
    \/ SmMarkCompleted
    \/ SmSave
    \/ SmLoad

SpecState == InitState /\ [][NextState]_vars

\* A notice of any id in any status, with smHist and the rest idle.
InitNotice ==
    /\ cfg = [max_workers |-> 1, queue_size |-> 1, max_items |-> NoInt,
              max_pages |-> NoInt, save_interval |-> 1, max_retries |-> 0,
              listing |-> << <<1>> >>, max_runs |-> 0, faults |-> 0]
    /\ phase = "off"
    /\ run_no = 0
    /\ state = CrawlState(0, FALSE)
    /\ state_file = NOFILE
    /\ backup_file = NOFILE
    /\ archive = <<>>
    /\ task_queue = <<>>
    /\ unfinished = 0
    /\ items_collected = 0
    /\ current_page = 1
    /\ page_items = 0
    /\ prod = ProdIdle
    /\ wk = [w \in {1} |-> WorkerIdle]
    /\ faults = 0
    /\ hist = HistNew
    /\ smHist = SmHistNew
    /\ notice \in {[NoticeOff EXCEPT !.self = BidNotice(id, st)] :
                      id \in 1..MaxNoticeIds, st \in BidStatus}
    /\ RetryOff /\ RepoOff /\ SchedOff

NextNotice == NoticeTransition

SpecNotice == InitNotice /\ [][NextNotice]_vars

Init ==
    /\ cfg \in Configs
    /\ phase = "idle"
    /\ run_no = 0
    /\ state = CrawlState(0, FALSE)
    /\ state_file = NOFILE
    /\ backup_file = NOFILE
    /\ archive = <<>>
    /\ task_queue = <<>>
    /\ unfinished = 0
    /\ items_collected = 0
    /\ current_page = 1
    /\ page_items = 0
    /\ prod = ProdIdle
    /\ wk = [w \in Workers |-> WorkerIdle]
    /\ faults = cfg.faults
    /\ hist = HistNew
    /\ smHist = SmHistNew
    /\ notice = NoticeOff
    /\ repo = RepoNew /\ repoHist = RepoHistNew
    /\ RetryOff /\ SchedOff

Next == StartRun \/ PipelineStep \/ Interrupt \/ Crash

Spec == Init /\ [][Next]_vars

\* A clean crawl: the event loop runs every coroutine that is ready, no
\* scrape fails and no signal arrives.
InitClean ==
    /\ cfg \in CleanConfigs
    /\ phase = "idle"
    /\ run_no = 0
    /\ state = CrawlState(0, FALSE)
    /\ state_file = NOFILE
    /\ backup_file = NOFILE
    /\ archive = <<>>
    /\ task_queue = <<>>
    /\ unfinished = 0
    /\ items_collected = 0
    /\ current_page = 1
    /\ page_items = 0
    /\ prod = ProdIdle
    /\ wk = [w \in Workers |-> WorkerIdle]
    /\ faults = cfg.faults
    /\ hist = HistNew
    /\ smHist = SmHistNew
    /\ notice = NoticeOff
    /\ repo = RepoNew /\ repoHist = RepoHistNew
    /\ RetryOff /\ SchedOff

NextClean == StartRun \/ PipelineStep

SpecClean == InitClean /\ [][NextClean]_vars /\ WF_vars(NextClean)

(***************************************************************************)
(* Properties                                                              *)
(***************************************************************************)

\* The listed positions (page, index) whose id the state st has not collected.
Uncollected(st) ==
    UNION {{<<p, i>> : i \in {k \in 0..(Len(cfg.listing[p]) - 1) :
                                cfg.listing[p][k + 1] \notin st.collected_ids}} :
           p \in 1..NumPages}

\* Position a is at or after position b in listing order.
AtOrAfter(a, b) == a[1] > b[1] \/ (a[1] = b[1] /\ a[2] >= b[2])

\* C1: whenever the state file holds a checkpoint of an unfinished run,
\* every listed item that is not in its collected_ids lies at or after the
\* resume point (current_page, current_index) it records.
C1_ResumeNeverSkips ==
    (phase = "running" /\ Parses(state_file)) =>
        \A pos \in Uncollected(StateOf(state_file)) :
            AtOrAfter(pos, <<StateOf(state_file).progress.current_page,
                             StateOf(state_file).progress.current_index>>)

\* The workers that are driving the shared browser page.
OnPage == {w \in Workers : wk[w].pc \in {"scrape", "go_back"}}

\* C2: at most one worker at a time is inside the page-driving part of
\* process() (detail navigation, scrape, go_back).
C2_PageAccessSerialized == Cardinality(OnPage) <= 1

\* C3: at most one call of _crawl_job is in progress at any time.
C3_RunsNeverOverlap == Cardinality(sched.runs) <= 1

\* C4: no worker ends with an exception, the pipeline can always take a
\* step until run() is left, and once the orchestrator waits in gather it
\* has enqueued exactly max_workers sentinels.
C4_PipelineDrains ==
    /\ \A w \in Workers : wk[w].pc # "dead"
    /\ phase = "running" => ENABLED PipelineStep
    /\ (phase = "running" /\ prod.pc = "gather") =>
           hist.sentinels = cfg.max_workers

\* C5: however run() was left (normal return, exception, KeyboardInterrupt,
\* cancellation), the repository was flushed, the state was saved and the
\* browser was closed.
C5_ShutdownAlwaysRuns ==
    hist.last_exit.kind \in {"ok", "exception", "keyboard", "cancelled"} =>
        /\ hist.last_exit.repo_flushed
        /\ hist.last_exit.state_saved
        /\ hist.last_exit.browser_closed

\* Ids the sequence of records holds more than once.
StoredTwice(recs) ==
    {recs[i].id : i \in {k \in 1..Len(recs) :
                           \E j \in 1..Len(recs) : j # k /\ recs[j].id = recs[k].id}}

\* C6: a resumed run scrapes no item that the output of an earlier run
\* holds, and no id is stored twice over the output of all runs.
C6_ResumeDedup ==
    hist.resumed =>
        /\ hist.rescraped \cap IdsOf(archive) = {}
        /\ StoredTwice(archive \o repo.file \o repo.buffer) = {}

\* C7: statistics.total_collected equals the size of collected_ids, in the
\* state in memory and in every state file and backup written.
C7_TotalMatchesCollected ==
    /\ state.statistics.total_collected = Cardinality(state.collected_ids)
    /\ Parses(state_file) =>
         StateOf(state_file).statistics.total_collected =
             Cardinality(StateOf(state_file).collected_ids)
    /\ Parses(backup_file) =>
         StateOf(backup_file).statistics.total_collected =
             Cardinality(StateOf(backup_file).collected_ids)

\* A resumed run in which mark_collected was called for an id that was
\* collected already.
C7_Witness ==
    /\ hist.resumed
    /\ state.statistics.skipped_duplicates > 0
    /\ state.statistics.total_collected > 0

C9_NonRetryablePropagates ==
    \A i \in 1..retry.calls :
        retry.outcomes[i] = "N" =>
            /\ i = retry.calls
            /\ retry.pc = "raised"
            /\ retry.raised.type = "original"
            /\ retry.raised.error = ErrorOf("N", i)
            /\ Len(retry.sleeps) = i - 1
            /\ Len(retry.on_retry_calls) <= i - 1

\* The first call raised a non-retryable error although retries and an
\* on_retry callback were configured.
C9_Witness ==
    /\ retry.outcomes = <<"N">>
    /\ retry.args.has_on_retry
    /\ retry.args.max_retries = MaxRetriesBound
    /\ retry.pc = "raised"

\* C10: every id for which save returned True is reported by exists, from
\* that moment on and through every later save, save_batch, flush, close.
C10_SavedExists == \A id \in repoHist.saved_true : exists(repo, id)

\* A saved id that is only in the write buffer, and one that went through
\* a flush and later operations.
C10_Witness ==
    /\ \E id \in repoHist.saved_true :
           id \in IdsOf(repo.buffer) /\ id \notin IdsOf(repo.file)
    /\ \E id \in repoHist.saved_true : id \in IdsOf(repo.file)
    /\ repoHist.last.op = "close"


\* C11: save returns False exactly when the id is already stored (in the
\* buffer or in the file) and True on a new write; the storage holds at most
\* one record per id, and a record it holds is the first one it took in
\* for that id.
C11_SaveWriteOnce ==
    /\ (repoHist.last.op = "save" /\ ~repoHist.last.raised) =>
           (repoHist.last.ret <=> ~repoHist.last.existed)
    /\ StoredTwice(Stored(repo)) = {}
    /\ \A rec \in Range(Stored(repo)) : rec \in repoHist.first


\* C12: when flush or close has returned, the buffer is empty and every id
\* save returned True for is in the file exactly once; a flush that follows
\* a flush with no save in between leaves the file as it was.
C12_FlushDurable ==
    Flushed =>
        /\ repo.buffer = <<>>
        /\ \A id \in repoHist.saved_true :
               Cardinality({i \in 1..Len(repo.file) : repo.file[i].id = id}) = 1
        /\ repoHist.last.after_flush => ~repoHist.last.changed


\* The file a load() has to take the state from when the state file is sf
\* and the backup is bf: the state file when it parses, the backup when the
\* state file exists, does not parse and the backup does; NOFILE otherwise.
Persisted(sf, bf) ==
    IF Parses(sf) THEN sf
    ELSE IF sf.kind = "corrupt" /\ Parses(bf) THEN bf
    ELSE NOFILE

\* C13: initialize(run_id, resume) with resume true and a loadable state
\* whose is_completed is false returns the persisted progress, collected_ids
\* and statistics under the new run_id with is_running true; in every other
\* case it returns a fresh state: no collected ids, zero statistics, page 1,
\* index 0, is_running true.
C13_InitializeResumes ==
    smHist.last.op = "initialize" =>
        LET f == Persisted(smHist.last.sf, smHist.last.bf)
        IN  /\ state.run_id = smHist.last.run_id
            /\ state.is_running
            /\ IF smHist.last.resume /\ Parses(f) /\ ~StateOf(f).is_completed
               THEN /\ state.progress = StateOf(f).progress
                    /\ state.collected_ids = StateOf(f).collected_ids
                    /\ state.statistics = StateOf(f).statistics
               ELSE /\ state.collected_ids = {}
                    /\ state.statistics = CrawlStatistics
                    /\ state.progress.current_page = 1
                    /\ state.progress.current_index = 0

\* A resume that took up collected ids and progress under a new run_id.
C13_Witness ==
    /\ smHist.last.op = "initialize"
    /\ smHist.last.resume
    /\ Parses(smHist.last.sf)
    /\ StateOf(smHist.last.sf).run_id # state.run_id
    /\ state.collected_ids # {}
    /\ state.progress.current_page = 2

\* A step on which the producer becomes suspended in put leaves the queue
\* full, and a suspended producer adds an entry only to a queue with room.
PutSuspends ==
    /\ (prod.pc \notin {"put", "sentinel"} /\ prod'.pc \in {"put", "sentinel"})
           => Len(task_queue') = cfg.queue_size
    /\ (prod.pc \in {"put", "sentinel"} /\ Len(task_queue') > Len(task_queue))
           => Len(task_queue) < cfg.queue_size

\* C14: the task queue never holds more than queue_size entries, tasks and
\* sentinels together; a producer that finds it full is suspended in put
\* and goes on only when there is room.
C14_QueueBounded ==
    /\ [](Len(task_queue) <= cfg.queue_size)
    /\ [][PutSuspends]_vars

\* The producer is suspended in put on a full queue that holds a sentinel.
C14_Witness ==
    /\ phase = "running"
    /\ prod.pc = "sentinel"
    /\ Len(task_queue) = cfg.queue_size
    /\ \E i \in 1..Len(task_queue) : task_queue[i] = Sentinel
    /\ \E i \in 1..Len(task_queue) : task_queue[i] # Sentinel

\* C15: with max_pages = 0 or max_items = 0 the run processes no item and
\* writes nothing to the repository (and ends with is_completed true).
C15_ZeroLimitWritesNothing ==
    (cfg.max_items = 0 \/ cfg.max_pages = 0) =>
        /\ hist.processed = 0
        /\ hist.saved = {}
        /\ Stored(repo) = <<>>
        /\ state.collected_ids = {}

\* C16: with max_items = M > 0 no run processes and saves more than M
\* items, whatever max_workers and queue_size are.
C16_MaxItemsRespected ==
    cfg.max_items > 0 =>
        /\ hist.processed <= cfg.max_items
        /\ Cardinality(hist.saved) <= cfg.max_items

\* The ids the site lists.
ListedIds == UNION {Range(cfg.listing[p]) : p \in 1..NumPages}

\* What a finished clean crawl leaves behind.
CleanResult ==
    /\ hist.last_exit.kind = "ok"
    /\ state.collected_ids = ListedIds
    /\ state.statistics.total_collected = Cardinality(ListedIds)
    /\ state.statistics.errors = 0
    /\ state.statistics.skipped_duplicates = 0
    /\ state.is_completed
    /\ state.progress.last_completed_page = NumPages
    /\ IdsOf(repo.file) = ListedIds
    /\ Len(repo.file) = Cardinality(ListedIds)
    /\ repo.buffer = <<>>
    /\ StateOf(state_file) = state

\* C17: a crawl of a listing with distinct ids, without failures and without
\* limits, terminates, for any max_workers, with collected_ids the listed
\* ids, total_collected their number, no errors, no skipped duplicates,
\* is_completed true, last_completed_page the last page and one record per
\* listed id in the repository.
C17_CleanCrawl ==
    /\ <>(phase = "idle" /\ run_no = 1)
    /\ []((phase = "idle" /\ run_no = 1) => CleanResult)

\* A clean crawl of three items on two pages by two workers has ended.
C17_Witness ==
    /\ phase = "idle" /\ run_no = 1
    /\ cfg.max_workers = 2
    /\ NumPages = 2
    /\ Len(repo.file) = 3
    /\ state.is_completed

\* Worker w is in the detail scrape's last attempt and the step makes it
\* fail.
ScrapeExhausted(w) ==
    /\ phase = "running"
    /\ wk[w].pc = "scrape"
    /\ wk[w].attempt = cfg.max_retries
    /\ faults' = faults - 1
    /\ wk'[w] # wk[w]

\* What C18 asks of such a step.
FailureContained(w) ==
    LET id == wk[w].task.id
    IN  /\ \E rec \in Range(Stored(repo')) :
              rec.id = id /\ ~rec.crawl_success /\ rec.crawl_error # NONE
        /\ id \in state'.collected_ids
        /\ state'.statistics.errors = state.statistics.errors + 1
        /\ Len(state'.failed_items) = Len(state.failed_items) + 1
        /\ wk'[w].pc = "batch_sleep"

\* C18: when the detail scrape of an item fails on all max_retries + 1
\* attempts, a partial record with crawl_success false and a crawl_error is
\* stored for it, its id is in collected_ids, errors grows by one, one
\* failed_items entry is appended, and the worker goes on.
C18_ScrapeFailureContained ==
    [][\A w \in Workers : ScrapeExhausted(w) => FailureContained(w)]_vars

\* C19: load() ends without raising; when the state file does not parse
\* and the backup does it returns the state of the backup, and when neither
\* parses it returns None after a bounded number of attempts.
C19_LoadFallsBack ==
    smHist.last.op = "load" =>
        /\ ~smHist.last.raised
        /\ smHist.last.calls <= RecursionLimit + 1
        /\ (smHist.last.sf.kind = "corrupt" /\ Parses(smHist.last.bf)) =>
               /\ smHist.last.loaded = smHist.last.bf
               /\ smHist.last.calls = 2
        /\ (smHist.last.sf.kind = "corrupt" /\ ~Parses(smHist.last.bf)) =>
               smHist.last.loaded = NOFILE

\* load() met a state file and a backup that both do not parse.
C19_Witness ==
    /\ smHist.last.op = "load"
    /\ smHist.last.sf.kind = "corrupt"
    /\ smHist.last.bf.kind = "corrupt"
    /\ smHist.last.loaded = NOFILE

\* The state a new StateManager loads from the files as they are.
Reloaded == sm_load(state_file, backup_file).loaded

\* Every value in the failed_items of st is one json writes natively.
JsonNative(st) ==
    \A i \in 1..Len(st.failed_items) : st.failed_items[i].info.t = "str"

\* C20 as stated: after a successful save of any state, a new StateManager
\* loads a state equal to it in run_id, flags, last_error, progress,
\* statistics, collected_ids and failed_items.
C20_RoundTripAny ==
    (smHist.last.op \in {"save", "complete_page", "mark_completed"}
     /\ smHist.last.ret) =>
        /\ Parses(Reloaded)
        /\ StateOf(Reloaded) = state

\* C20 for the states whose failed_items hold only values json writes
\* natively: the round trip gives back an equal state.
C20_RoundTripNative ==
    (smHist.last.op \in {"save", "complete_page", "mark_completed"}
     /\ smHist.last.ret /\ JsonNative(state)) =>
        /\ Parses(Reloaded)
        /\ StateOf(Reloaded) = state

\* A state with collected ids, an error with a string in its item_info and
\* moved progress was saved.
C20_Witness ==
    /\ smHist.last.op = "save" /\ smHist.last.ret
    /\ state.collected_ids # {}
    /\ Len(state.failed_items) > 0
    /\ JsonNative(state)
    /\ state.progress.current_page = 2

\* The progress pointer of st is not behind that of old.
NotBehind(st, old) ==
    /\ st.progress.last_completed_page >= old.progress.last_completed_page
    /\ AtOrAfter(<<st.progress.current_page, st.progress.current_index>>,
                 <<old.progress.current_page, old.progress.current_index>>)

\* A step inside a run, or the start of a run that resumes from the state
\* file, does not move the progress pointer backwards.
ProgressAdvances ==
    /\ (phase = "running" /\ state'.run_id = state.run_id) =>
           NotBehind(state', state)
    /\ (phase = "idle" /\ phase' = "running" /\ hist'.resumed) =>
           NotBehind(state', StateOf(state_file))

\* C21: over every step of a run, and across runs resumed from the same
\* state file, last_completed_page never decreases and the position
\* (current_page, current_index) never moves backwards.
C21_ProgressOnlyAdvances == [][ProgressAdvances]_vars

\* is_completed implies not is_running in st.
FlagsConsistent(st) == st.is_completed => ~st.is_running

\* C22: in the state in memory and in every state file and backup written,
\* is_completed implies not is_running.
C22_CompletedNotRunning ==
    /\ FlagsConsistent(state)
    /\ Parses(state_file) => FlagsConsistent(StateOf(state_file))
    /\ Parses(backup_file) => FlagsConsistent(StateOf(backup_file))

\* A running state was marked completed and saved.
C22_Witness ==
    /\ smHist.last.op = "mark_completed"
    /\ state.run_id > 0
    /\ state.is_completed
    /\ Parses(state_file) /\ StateOf(state_file).is_completed

\* The transitions C23 lists.
Listed(a, b) ==
    \/ a = "OPEN" /\ b \in {"CLOSED", "CANCELLED", "POSTPONED"}
    \/ a = "POSTPONED" /\ b \in {"OPEN", "CANCELLED", "REBID"}
    \/ a = "REBID" /\ b = "OPEN"

\* C23: transition_to accepts exactly the listed transitions and raises
\* InvalidBidDataException for every other pair; an accepted transition
\* returns a new notice with the new status and leaves the original as it
\* was.
C23_TransitionTable ==
    notice.last.op = "transition_to" =>
        /\ ~notice.last.raised <=>
               Listed(notice.last.before.status, notice.last.new_status)
        /\ ~notice.last.raised =>
               notice.last.ret = BidNotice(notice.last.before.bid_notice_id,
                                           notice.last.new_status)
        /\ notice.last.after = notice.last.before

\* A postponed notice was announced again and the caller went on with the
\* new notice.
C23_Witness ==
    /\ notice.last.op = "transition_to"
    /\ notice.last.before.status = "POSTPONED"
    /\ notice.last.new_status = "REBID"
    /\ ~notice.last.raised
    /\ notice.self.status = "REBID"

\* C24: on_retry(k + 1, error) is called once after the failed attempt k
\* when another attempt follows, before the sleep and before attempt k + 1,
\* with the numbers 1, 2, ... in order and the error of that attempt; never
\* after a success or the last failure: when retry_async has ended, the
\* calls of on_retry are one fewer than the invocations.
C24_OnRetryBetweenAttempts ==
    retry.args.has_on_retry =>
        /\ \A i \in 1..Len(retry.on_retry_calls) :
               /\ retry.on_retry_calls[i].attempt = i
               /\ retry.on_retry_calls[i].error = ErrorOf(retry.outcomes[i], i)
               /\ retry.outcomes[i] # "ok"
        /\ retry.pc \in {"returned", "raised"} =>
               Len(retry.on_retry_calls) = retry.calls - 1
        /\ retry.pc \in {"call", "sleep"} =>
               Len(retry.on_retry_calls) = retry.calls
        /\ \A i \in 1..Len(retry.events) :
               retry.events[i][1] = "on_retry" =>
                   /\ i > 1 /\ i < Len(retry.events)
                   /\ retry.events[i - 1] = <<"call", retry.events[i][2] - 1>>
                   /\ retry.events[i + 1][1] = "sleep"
        /\ \A i \in 1..(Len(retry.events) - 1) :
               (retry.events[i][1] = "call" /\ retry.events[i + 1][1] # "call") =>
                   retry.events[i + 1] = <<"on_retry", retry.events[i][2] + 1>>

\* Two attempts failed, on_retry was called after each, and the third
\* attempt succeeded.
C24_Witness ==
    /\ retry.args.has_on_retry
    /\ retry.pc = "returned"
    /\ retry.calls = 3
    /\ Len(retry.on_retry_calls) = 2

\* C30: after RetryContext.execute(op) has returned, the attempts property
\* of the context is the number of times op was invoked.
C30_AttemptsCountInvocations ==
    (ctx.used /\ retry.pc = "returned") => attempts(ctx) = retry.calls

\* The step ends process() for the task worker w took from the queue (its
\* id was not collected when process() looked).
ProcessEnds(w) ==
    /\ phase = "running" /\ phase' = "running"
    /\ wk[w].pc \in {"scrape", "go_back"}
    /\ wk'[w].pc \notin {"scrape", "go_back"} \/ wk'[w].task # wk[w].task

\* The repository has taken a record for the task's id and the id is
\* collected.
DetailKept(w) ==
    /\ wk[w].task.id \in IdsOf(Stored(repo'))
    /\ wk[w].task.id \in state'.collected_ids

\* C25: a task whose id process() found not collected ends with a record
\* given to the repository and its id in collected_ids, also when the
\* return to the list page fails after a successful scrape.
C25_DetailNeverDropped ==
    [][\A w \in Workers : ProcessEnds(w) => DetailKept(w)]_vars

\* The step raises a RepositoryException (from save or flush) in a worker.
RepositoryFails == phase = "running" /\ hist'.repo_raised = hist.repo_raised + 1

\* C26: when save or flush raises RepositoryException in a worker, the
\* StateManager records an error (statistics.errors grows) and no worker
\* ends.
C26_RepositoryFailureRecorded ==
    [][RepositoryFails =>
          /\ state'.statistics.errors > state.statistics.errors
          /\ \A w \in Workers : wk'[w].pc = "dead" => wk[w].pc = "dead"]_vars

\* C27: when the state file holds a checkpoint written by the current run,
\* every id of its collected_ids that this run gave to the repository has
\* its record in the output file, not only in the write buffer.
C27_CheckpointBehindData ==
    (Parses(state_file) /\ StateOf(state_file).run_id = run_no /\ run_no > 0) =>
        (StateOf(state_file).collected_ids \cap hist.saved) \subseteq IdsOf(repo.file)

\* The state file holds a checkpoint the current run wrote.
OwnCheckpoint == Parses(state_file) /\ StateOf(state_file).run_id = run_no

HoldingTask == {w \in Workers : wk[w].pc \in {"scrape", "go_back", "batch_sleep"}}

\* C29: task_done is called exactly once for every dequeued entry: the
\* unfinished count of the queue is the number of entries still queued plus
\* the number of tasks being handled, it is never negative, and no worker
\* has ended with the ValueError of task_done.
C29_TaskDoneOncePerEntry ==
    phase = "running" =>
        /\ unfinished = Len(task_queue) + Cardinality(HoldingTask)
        /\ unfinished >= 0
        /\ \A w \in Workers : wk[w].pc # "dead"

=============================================================================
